---- MODULE Spec2Model ----
(***************************************************************************)
(* Model of audio2score.py: the Audio -> MIDI -> MusicXML -> PDF pipeline. *)
(*                                                                         *)
(* The state is the filesystem, the locals of main() and what the process  *)
(* has shown the operator (stdout report, stderr warnings, exit status).   *)
(* File names are sequences of tokens in which "." is a token of its own,  *)
(* so that pathlib's stem / with_suffix and the glob of run_basic_pitch    *)
(* are computed on the name as the code computes them on the string.       *)
(* The external collaborators (librosa/soundfile, Basic Pitch, the         *)
(* MuseScore CLI, music21) are nondeterministic choices over the outcomes  *)
(* their call sites distinguish.  Runs of the program follow one another   *)
(* on the same filesystem.                                                 *)
(***************************************************************************)
EXTENDS Integers, Sequences, FiniteSets, TLC

\* number of consecutive runs of the program on the same filesystem
MaxRuns == 2

VARIABLES
    fs,            \* existing files: path |-> [data, run]
    fs0,           \* the filesystem as it was when the current run started
    run,           \* number of runs started so far
    args,          \* parsed command line of the current run
    toolPresent,   \* whether the --musescore-cmd executable can be found
    pc,            \* position of the current run in main()
    normalized,    \* main: normalized
    midi_path,     \* main: midi_path
    musicxml_path, \* main: musicxml_path
    pdf_path,      \* main: pdf_path (NoPath models None)
    calls,         \* stages invoked in this run: <<[stage, input]>>
    rets,          \* stages that returned in this run: <<[stage, output]>>
    deleted,       \* paths unlinked by this run
    capCalls,      \* invocations of predict_and_save in this run, with the
                   \* derived-name files that existed at that moment
    toolCalls,     \* invocations of the MuseScore CLI: <<[input, output, outcome]>>
    libCalls,      \* invocations of music21: <<[input, output, outcome]>>
    stderr,        \* messages printed to stderr in this run
    stdout,        \* the final summary (NoReport until printed)
    exit,          \* exit status: Running, 0 or 1
    abort,         \* [cause, path] of the abort, NoAbort otherwise
    prev           \* the previous run: its flags, exit status, abort cause and
                   \* tool outcomes, and whether the last full run exited 0

vars == <<fs, fs0, run, args, toolPresent, pc, normalized, midi_path,
          musicxml_path, pdf_path, calls, rets, deleted, capCalls, toolCalls,
          libCalls, stderr, stdout, exit, abort, prev>>

----------------------------------------------------------------------------
\* Paths and file names

\* pathlib.Path: a directory and a name; the name is a sequence of tokens
Path(d, n) == [dir |-> d, name |-> n]

\* Optional[pathlib.Path] = None
NoPath == [dir |-> "", name |-> <<>>]

\* index of the last "." token of a name, 0 when there is none (str.rfind)
RECURSIVE RFindDot(_, _)
RFindDot(n, i) ==
    IF i = 0 THEN 0
    ELSE IF n[i] = "." THEN i
    ELSE RFindDot(n, i - 1)

\* PurePath.suffix: the last dot and what follows it, unless the dot is the
\* first or the last character of the name
Suffix(n) ==
    LET i == RFindDot(n, Len(n))
    IN  IF 1 < i /\ i < Len(n) THEN SubSeq(n, i, Len(n)) ELSE <<>>

\* PurePath.stem: the name without its suffix
Stem(n) ==
    LET i == RFindDot(n, Len(n))
    IN  IF 1 < i /\ i < Len(n) THEN SubSeq(n, 1, i - 1) ELSE n

\* PurePath.with_suffix(suffix): the name with its suffix replaced, or the
\* suffix appended when the name has none
WithSuffix(p, suffix) ==
    Path(p.dir, SubSeq(p.name, 1, Len(p.name) - Len(Suffix(p.name))) \o suffix)

\* ".normalized.wav"
NormalizedSuffix == <<".", "normalized", ".", "wav">>

\* NormalizedPath with the suffix appended to the whole name
NormalizedPathAppends(input_path) ==
    Path(input_path.dir, input_path.name \o NormalizedSuffix)

\* input_path.with_suffix(".normalized.wav")
NormalizedPath(input_path) == WithSuffix(input_path, NormalizedSuffix)

\* output_dir / f"{stem}_basic_pitch.{ext}"
BasicPitchPath(output_dir, stem, ext) ==
    Path(output_dir, stem \o <<"_basic_pitch", ".", ext>>)

\* output_dir / f"{midi_path.stem}.musicxml"  and  ... f"{midi_path.stem}.pdf"
\* ScorePath keeping the MIDI's own suffix
ScorePathKeepsSuffix(output_dir, midi, ext) == Path(output_dir, midi.name)

ScorePath(output_dir, midi, ext) ==
    Path(output_dir, Stem(midi.name) \o <<".", ext>>)

\* the extensions whose stale files run_basic_pitch removes
\* CleanupExts with the MIDI alone
CleanupExtsMidiOnly == {"mid"}

\* CleanupExts without the MIDI
CleanupExtsNoMidi == {"npz", "csv", "wav"}

CleanupExts == {"mid", "npz", "csv", "wav"}

----------------------------------------------------------------------------
\* The filesystem

Exists(f, p) == p \in DOMAIN f

\* a file written by the current run
Write(f, p, data) ==
    [q \in DOMAIN f \cup {p} |-> IF q = p THEN [data |-> data, run |-> run]
                                         ELSE f[q]]

\* Path.unlink on every path of ps
Unlink(f, ps) == [q \in DOMAIN f \ ps |-> f[q]]

\* the content a producer derives from the content of its input
Produce(tag, src) == <<tag>> \o src

\* order of the tokens as strings
TokenRank ==
    [t \in {".", "_basic_pitch", "_old", "csv", "demo", "foo", "mid",
            "musicxml", "normalized", "npz", "pdf", "take", "wav"} |->
        CASE t = "."            -> 1
          [] t = "_basic_pitch" -> 2
          [] t = "_old"         -> 3
          [] t = "csv"          -> 4
          [] t = "demo"         -> 5
          [] t = "foo"          -> 6
          [] t = "mid"          -> 7
          [] t = "musicxml"     -> 8
          [] t = "normalized"   -> 9
          [] t = "npz"          -> 10
          [] t = "pdf"          -> 11
          [] t = "take"         -> 12
          [] t = "wav"          -> 13]

\* a < b for names as strings (the order sorted() puts sibling paths in)
RECURSIVE NameLess(_, _)
NameLess(a, b) ==
    IF a = <<>> THEN b # <<>>
    ELSE IF b = <<>> THEN FALSE
    ELSE IF Head(a) = Head(b) THEN NameLess(Tail(a), Tail(b))
    ELSE TokenRank[Head(a)] < TokenRank[Head(b)]

\* str.startswith
StartsWith(n, prefix) ==
    Len(n) >= Len(prefix) /\ SubSeq(n, 1, Len(prefix)) = prefix

\* output_dir.glob(f"{stem}*.mid")
GlobMid(f, output_dir, stem) ==
    {p \in DOMAIN f :
        /\ p.dir = output_dir
        /\ Len(p.name) >= Len(stem) + 2
        /\ StartsWith(p.name, stem)
        /\ SubSeq(p.name, Len(p.name) - 1, Len(p.name)) = <<".", "mid">>}

\* sorted(candidates)[0]
\* FirstSorted taking candidates[-1]
FirstSortedPicksLast(ps) == CHOOSE p \in ps : \A q \in ps \ {p} : NameLess(q.name, p.name)

FirstSorted(ps) == CHOOSE p \in ps : \A q \in ps \ {p} : NameLess(p.name, q.name)

----------------------------------------------------------------------------
\* Command lines and initial filesystems

\* --output-dir (default "build")
OutputDir == "build"

\* the input audio files of the runs, each with its stem S
Inputs ==
    { [path |-> Path("build", <<"foo", ".", "wav">>), S |-> <<"foo">>],
      [path |-> Path("in", <<"take", ".", "demo", ".", "wav">>),
       S |-> <<"take", ".", "demo">>] }

\* the stem S of an input path
InputStem(p) == (CHOOSE i \in Inputs : i.path = p).S

\* files earlier runs or the operator may have left behind for input i
Leftovers(i) ==
    { Path(i.path.dir, i.S \o <<".", "normalized", ".", "wav">>),
      Path(OutputDir, i.S \o <<".", "normalized", "_basic_pitch", ".", "mid">>),
      Path(OutputDir, i.S \o <<".", "normalized", "_basic_pitch", ".", "npz">>),
      Path(OutputDir, i.S \o <<".", "normalized", "_old", ".", "mid">>),
      Path(OutputDir, i.S \o <<".", "normalized", "_basic_pitch", ".", "musicxml">>) }

\* content of a file no run of the model wrote
OldFile(p, i) == [data |-> IF p = i.path THEN <<"raw">> ELSE <<"old">>, run |-> 0]

\* exit status of a run that has not ended
Running == -1

NoReport == <<>>
NoAbort == [cause |-> "", path |-> NoPath]
NoPrev == [run |-> 0, args |-> [score_only |-> FALSE, no_pdf |-> FALSE],
           exit |-> Running, outs |-> [tool |-> <<>>, lib |-> <<>>],
           sinceFull |-> FALSE, cause |-> ""]

\* argparse: the flags of one invocation on input audio a
ArgsFor(a) ==
    { [audio |-> a, output_dir |-> OutputDir, score_only |-> so, no_pdf |-> np] :
        so \in BOOLEAN, np \in BOOLEAN }

\* the outcomes of the external notation tool and library in the current run
Outs == [tool |-> [k \in 1..Len(toolCalls) |-> toolCalls[k].outcome],
         lib  |-> [k \in 1..Len(libCalls) |-> libCalls[k].outcome]]

\* main() entered with nothing done yet
FreshLocals ==
    /\ pc = "main"
    /\ normalized = NoPath
    /\ midi_path = NoPath
    /\ musicxml_path = NoPath
    /\ pdf_path = NoPath
    /\ calls = <<>>
    /\ rets = <<>>
    /\ deleted = {}
    /\ capCalls = <<>>
    /\ toolCalls = <<>>
    /\ libCalls = <<>>
    /\ stderr = <<>>
    /\ stdout = NoReport
    /\ exit = Running
    /\ abort = NoAbort

Init ==
    /\ \E i \in Inputs : \E present \in SUBSET Leftovers(i), given \in BOOLEAN :
        /\ fs = [p \in present \cup (IF given THEN {i.path} ELSE {}) |-> OldFile(p, i)]
        /\ args \in ArgsFor(i.path)
    /\ fs0 = fs
    /\ run = 1
    /\ toolPresent \in BOOLEAN
    /\ prev = NoPrev
    /\ FreshLocals

\* the operator starts the program again on the same input
NextRun ==
    /\ pc \in {"done", "aborted"}
    /\ run < MaxRuns
    /\ run' = run + 1
    /\ args' \in ArgsFor(args.audio)
    /\ toolPresent' \in BOOLEAN
    /\ prev' = [run |-> run,
                args |-> [score_only |-> args.score_only, no_pdf |-> args.no_pdf],
                exit |-> exit, outs |-> Outs,
                sinceFull |-> IF args.score_only THEN prev.sinceFull ELSE exit = 0,
                cause |-> abort.cause]
    /\ fs0' = fs
    /\ pc' = "main"
    /\ normalized' = NoPath
    /\ midi_path' = NoPath
    /\ musicxml_path' = NoPath
    /\ pdf_path' = NoPath
    /\ calls' = <<>>
    /\ rets' = <<>>
    /\ deleted' = {}
    /\ capCalls' = <<>>
    /\ toolCalls' = <<>>
    /\ libCalls' = <<>>
    /\ stderr' = <<>>
    /\ stdout' = NoReport
    /\ exit' = Running
    /\ abort' = NoAbort
    /\ UNCHANGED fs

----------------------------------------------------------------------------
\* Ending a run

\* raise SystemExit(message) or an uncaught exception: exit status 1
Abort(cause, p) ==
    /\ pc' = "aborted"
    /\ exit' = 1
    /\ abort' = [cause |-> cause, path |-> p]

Call(stage, input) == calls' = Append(calls, [stage |-> stage, input |-> input])
Return(stage, output) == rets' = Append(rets, [stage |-> stage, output |-> output])

Goto(label) == pc' = label /\ UNCHANGED <<exit, abort>>

\* what no step of a run changes
runConst == <<run, args, toolPresent, fs0, prev>>

----------------------------------------------------------------------------
\* main(): input check and choice of the entry state

\* Entry with the Preprocessor left out of the full run
EntrySkipsPreprocess(score_only) == IF score_only THEN "score_only" ELSE "bp_import"

\* Entry with the --score-only flag ignored
EntryIgnoresFlag(score_only) == "preprocess"

\* the branch main() takes on args.score_only
Entry(score_only) == IF score_only THEN "score_only" ELSE "preprocess"

MainCheckInput ==
    /\ pc = "main"
    /\ IF ~Exists(fs, args.audio)
       THEN Abort("input_not_found", args.audio)
       ELSE Goto(Entry(args.score_only))
    /\ UNCHANGED <<runConst, fs, normalized, midi_path, musicxml_path, pdf_path,
                   calls, rets, deleted, capCalls, toolCalls, libCalls,
                   stderr, stdout>>

\* ScoreOnly with the score files of the MIDI removed before they are rebuilt
ScoreOnlyUnlinksScores ==
    /\ pc = "score_only"
    /\ LET norm == NormalizedPath(args.audio)
           candidate == BasicPitchPath(args.output_dir, Stem(norm.name), "mid")
           scores == {p \in {ScorePath(args.output_dir, candidate, "musicxml"),
                             ScorePath(args.output_dir, candidate, "pdf")} : Exists(fs, p)}
       IN  /\ normalized' = norm
           /\ IF ~Exists(fs, candidate)
              THEN /\ Abort("resume_midi_not_found", candidate)
                   /\ UNCHANGED <<midi_path, fs, deleted>>
              ELSE /\ midi_path' = candidate
                   /\ fs' = Unlink(fs, scores)
                   /\ deleted' = deleted \cup scores
                   /\ Goto("convert")
    /\ UNCHANGED <<runConst, musicxml_path, pdf_path, calls, rets,
                   capCalls, toolCalls, libCalls, stderr, stdout>>

\* resume mode: recompute the paths and check that the MIDI is there
ScoreOnly ==
    /\ pc = "score_only"
    /\ LET norm == NormalizedPath(args.audio)
           candidate == BasicPitchPath(args.output_dir, Stem(norm.name), "mid")
       IN  /\ normalized' = norm
           /\ IF ~Exists(fs, candidate)
              THEN /\ Abort("resume_midi_not_found", candidate)
                   /\ UNCHANGED midi_path
              ELSE /\ midi_path' = candidate
                   /\ Goto("convert")
    /\ UNCHANGED <<runConst, fs, musicxml_path, pdf_path, calls, rets, deleted,
                   capCalls, toolCalls, libCalls, stderr, stdout>>

----------------------------------------------------------------------------
\* Stage 1: preprocess_audio

\* librosa.load and soundfile.write as the call site sees them
PreprocessOutcomes == {"ok", "empty", "load_error", "write_error"}

PreprocessAudio ==
    /\ pc = "preprocess"
    /\ Call("Preprocessor", args.audio)
    /\ \E o \in PreprocessOutcomes :
        LET out_path == NormalizedPath(args.audio)
        IN  CASE o = "ok" ->
                  /\ fs' = Write(fs, out_path, Produce("normalized", fs[args.audio].data))
                  /\ normalized' = out_path
                  /\ Return("Preprocessor", out_path)
                  /\ Goto("bp_import")
              [] o = "empty" ->
                  /\ Abort("empty_audio", args.audio)
                  /\ UNCHANGED <<fs, normalized, rets>>
              [] OTHER ->
                  /\ Abort("preprocess_io", args.audio)
                  /\ UNCHANGED <<fs, normalized, rets>>
    /\ UNCHANGED <<runConst, midi_path, musicxml_path, pdf_path, deleted,
                   capCalls, toolCalls, libCalls, stderr, stdout>>

----------------------------------------------------------------------------
\* Stage 2: run_basic_pitch

\* from basic_pitch.inference import predict_and_save
\* the files at the derived name that exist
StaleOutputs(f, output_dir, stem) ==
    {p \in {BasicPitchPath(output_dir, stem, ext) : ext \in CleanupExts} : Exists(f, p)}

\* BPImport with the import attempted after the cleanup loop
BPImportAfterCleanup ==
    /\ pc = "bp_import"
    /\ Call("Transcriber", normalized)
    /\ \E importable \in BOOLEAN :
        IF importable
        THEN Goto("bp_cleanup") /\ UNCHANGED <<fs, deleted>>
        ELSE LET stale == StaleOutputs(fs, args.output_dir, Stem(normalized.name))
             IN  /\ fs' = Unlink(fs, stale)
                 /\ deleted' = deleted \cup stale
                 /\ Abort("basic_pitch_import", normalized)
    /\ UNCHANGED <<runConst, normalized, midi_path, musicxml_path, pdf_path,
                   rets, capCalls, toolCalls, libCalls, stderr, stdout>>

BPImport ==
    /\ pc = "bp_import"
    /\ Call("Transcriber", normalized)
    /\ \E importable \in BOOLEAN :
        IF importable THEN Goto("bp_cleanup")
        ELSE Abort("basic_pitch_import", normalized)
    /\ UNCHANGED <<runConst, fs, normalized, midi_path, musicxml_path, pdf_path,
                   rets, deleted, capCalls, toolCalls, libCalls, stderr, stdout>>

\* the loop that unlinks what Basic Pitch would refuse to overwrite
BPCleanup ==
    /\ pc = "bp_cleanup"
    /\ LET stale == StaleOutputs(fs, args.output_dir, Stem(normalized.name))
       IN  /\ fs' = Unlink(fs, stale)
           /\ deleted' = deleted \cup stale
    /\ Goto("bp_predict")
    /\ UNCHANGED <<runConst, normalized, midi_path, musicxml_path, pdf_path,
                   calls, rets, capCalls, toolCalls, libCalls, stderr, stdout>>

\* what predict_and_save can do: write the MIDI at the derived name, write it
\* under another name, return without writing, or raise; it does not
\* overwrite a MIDI that is already there
CapOutcomes(f, preferred) ==
    {"other", "nothing", "raise"} \cup (IF Exists(f, preferred) THEN {} ELSE {"preferred"})

BPPredict ==
    /\ pc = "bp_predict"
    /\ LET stem == Stem(normalized.name)
           preferred == BasicPitchPath(args.output_dir, stem, "mid")
           other == Path(args.output_dir, stem \o <<".", "mid">>)
           midi == Produce("basic_pitch", fs[normalized].data)
       IN  \E o \in CapOutcomes(fs, preferred) :
            /\ capCalls' = Append(capCalls,
                   [audio |-> normalized, outcome |-> o,
                    stale |-> StaleOutputs(fs, args.output_dir, stem)])
            /\ fs' = CASE o = "preferred" -> Write(fs, preferred, midi)
                       [] o = "other" -> Write(fs, other, midi)
                       [] OTHER -> fs
            /\ IF o = "raise" THEN Abort("basic_pitch_raised", normalized)
               ELSE Goto("bp_locate")
    /\ UNCHANGED <<runConst, normalized, midi_path, musicxml_path, pdf_path,
                   calls, rets, deleted, toolCalls, libCalls, stderr, stdout>>

\* the MIDI run_basic_pitch returns, NoPath when it raises FileNotFoundError
LocateMidi(f, output_dir, stem) ==
    LET preferred == BasicPitchPath(output_dir, stem, "mid")
        candidates == GlobMid(f, output_dir, stem)
    IN  IF Exists(f, preferred) THEN preferred
        ELSE IF candidates = {} THEN NoPath
        ELSE FirstSorted(candidates)

BPLocate ==
    /\ pc = "bp_locate"
    /\ LET found == LocateMidi(fs, args.output_dir, Stem(normalized.name))
       IN  IF found = NoPath
           THEN /\ Abort("midi_not_found", normalized)
                /\ UNCHANGED <<midi_path, rets>>
           ELSE /\ midi_path' = found
                /\ Return("Transcriber", found)
                /\ Goto("convert")
    /\ UNCHANGED <<runConst, fs, normalized, musicxml_path, pdf_path, calls,
                   deleted, capCalls, toolCalls, libCalls, stderr, stdout>>

----------------------------------------------------------------------------
\* run_musescore_convert: one invocation of the MuseScore CLI

\* how subprocess.run(cmd, check=True) can end: FileNotFoundError,
\* CalledProcessError, or exit status 0 with or without the output written
ToolOutcomes(f, input_path) ==
    IF ~toolPresent THEN {"notfound"}
    ELSE {"nonzero", "ok_nofile"} \cup (IF Exists(f, input_path) THEN {"ok"} ELSE {})

\* RunMusescoreConvert with FileNotFoundError taken for success
RunMusescoreConvertMissingOk(o) == o # "nonzero"

\* RunMusescoreConvert with success only when the output file was written
RunMusescoreConvertNeedsFile(o) == o = "ok"

\* the return value of run_musescore_convert
RunMusescoreConvert(o) == o \notin {"notfound", "nonzero"}

\* the file the tool writes
MuseScoreEffect(f, input_path, output_path, o) ==
    IF o = "ok" THEN Write(f, output_path, Produce("musescore", f[input_path].data))
    ELSE f

\* what run_musescore_convert prints to stderr
RunMusescoreLog(input_path, output_path, o) ==
    LET msg(level, text) == [level |-> level, text |-> text,
                             input |-> input_path, output |-> output_path]
    IN  <<msg("INFO", "Running MuseScore CLI")>> \o
        (CASE o = "notfound" -> <<msg("WARNING", "MuseScore command not found")>>
           [] o = "nonzero"  -> <<msg("WARNING", "MuseScore CLI failed")>>
           [] OTHER          -> <<>>)

ToolCall(input_path, output_path, o) ==
    /\ toolCalls' = Append(toolCalls, [input |-> input_path, output |-> output_path,
                                       outcome |-> o])
    /\ fs' = MuseScoreEffect(fs, input_path, output_path, o)
    /\ stderr' = stderr \o RunMusescoreLog(input_path, output_path, o)

----------------------------------------------------------------------------
\* Stage 3: midi_to_musicxml

\* the primary strategy: MuseScore on the MIDI
ConvertPrimary ==
    /\ pc = "convert"
    /\ LET xml == ScorePath(args.output_dir, midi_path, "musicxml")
       IN  /\ musicxml_path' = xml
           /\ Call("ScoreConverter", midi_path)
           /\ \E o \in ToolOutcomes(fs, midi_path) :
                /\ ToolCall(midi_path, xml, o)
                /\ IF RunMusescoreConvert(o)
                   THEN Return("ScoreConverter", xml) /\ Goto("render")
                   ELSE UNCHANGED rets /\ Goto("fallback")
    /\ UNCHANGED <<runConst, normalized, midi_path, pdf_path, deleted, capCalls,
                   libCalls, stdout>>

\* converter.parse and score.write as the call site sees them
LibOutcomes == {"ok", "raise"}

\* the fallback strategy: music21
ConvertFallback ==
    /\ pc = "fallback"
    /\ \E o \in LibOutcomes :
        /\ libCalls' = Append(libCalls, [input |-> midi_path, output |-> musicxml_path,
                                         outcome |-> o])
        /\ stderr' = Append(stderr, [level |-> "INFO", text |-> "Falling back to music21",
                                     input |-> midi_path, output |-> musicxml_path])
        /\ IF o = "ok"
           THEN /\ fs' = Write(fs, musicxml_path, Produce("music21", fs[midi_path].data))
                /\ Return("ScoreConverter", musicxml_path)
                /\ Goto("render")
           ELSE /\ Abort("music21_raised", midi_path)
                /\ UNCHANGED <<fs, rets>>
    /\ UNCHANGED <<runConst, normalized, midi_path, musicxml_path, pdf_path, calls,
                   deleted, capCalls, toolCalls, stdout>>

----------------------------------------------------------------------------
\* Stage 4: musicxml_to_pdf, unless --no-pdf

\* MusicxmlToPdf with --no-pdf ignored
MusicxmlToPdfIgnoresNoPdf ==
    /\ pc = "render"
    /\ LET pdf == ScorePath(args.output_dir, midi_path, "pdf")
       IN  /\ Call("Renderer", musicxml_path)
           /\ \E o \in ToolOutcomes(fs, musicxml_path) :
                /\ ToolCall(musicxml_path, pdf, o)
                /\ pdf_path' = IF RunMusescoreConvert(o) THEN pdf ELSE NoPath
                /\ Return("Renderer", IF RunMusescoreConvert(o) THEN pdf ELSE NoPath)
    /\ Goto("summary")
    /\ UNCHANGED <<runConst, normalized, midi_path, musicxml_path, deleted,
                   capCalls, libCalls, stdout>>

\* MusicxmlToPdf with a failed conversion raised instead of returned as None
MusicxmlToPdfRaises ==
    /\ pc = "render"
    /\ IF args.no_pdf
       THEN /\ pdf_path' = NoPath
            /\ Goto("summary")
            /\ UNCHANGED <<fs, calls, rets, toolCalls, stderr>>
       ELSE LET pdf == ScorePath(args.output_dir, midi_path, "pdf")
            IN  /\ Call("Renderer", musicxml_path)
                /\ \E o \in ToolOutcomes(fs, musicxml_path) :
                     /\ ToolCall(musicxml_path, pdf, o)
                     /\ IF RunMusescoreConvert(o)
                        THEN /\ pdf_path' = pdf
                             /\ Return("Renderer", pdf)
                             /\ Goto("summary")
                        ELSE /\ Abort("renderer_failed", musicxml_path)
                             /\ UNCHANGED <<pdf_path, rets>>
    /\ UNCHANGED <<runConst, normalized, midi_path, musicxml_path, deleted,
                   capCalls, libCalls, stdout>>

\* MusicxmlToPdf invoking the tool a second time when the first attempt failed
MusicxmlToPdfRetriesOnce ==
    /\ pc = "render"
    /\ IF args.no_pdf
       THEN /\ pdf_path' = NoPath
            /\ Goto("summary")
            /\ UNCHANGED <<fs, calls, rets, toolCalls, stderr>>
       ELSE LET pdf == ScorePath(args.output_dir, midi_path, "pdf")
            IN  /\ Call("Renderer", musicxml_path)
                /\ \E o \in ToolOutcomes(fs, musicxml_path) :
                     /\ ToolCall(musicxml_path, pdf, o)
                     /\ IF ~RunMusescoreConvert(o) /\ Len(toolCalls) < 2
                        THEN UNCHANGED <<pc, exit, abort, pdf_path, rets>>
                        ELSE /\ pdf_path' = IF RunMusescoreConvert(o) THEN pdf ELSE NoPath
                             /\ Return("Renderer",
                                       IF RunMusescoreConvert(o) THEN pdf ELSE NoPath)
                             /\ Goto("summary")
    /\ UNCHANGED <<runConst, normalized, midi_path, musicxml_path, deleted,
                   capCalls, libCalls, stdout>>

MusicxmlToPdf ==
    /\ pc = "render"
    /\ IF args.no_pdf
       THEN /\ pdf_path' = NoPath
            /\ UNCHANGED <<fs, calls, rets, toolCalls, stderr>>
       ELSE LET pdf == ScorePath(args.output_dir, midi_path, "pdf")
            IN  /\ Call("Renderer", musicxml_path)
                /\ \E o \in ToolOutcomes(fs, musicxml_path) :
                     /\ ToolCall(musicxml_path, pdf, o)
                     /\ pdf_path' = IF RunMusescoreConvert(o) THEN pdf ELSE NoPath
                     /\ Return("Renderer", IF RunMusescoreConvert(o) THEN pdf ELSE NoPath)
    /\ Goto("summary")
    /\ UNCHANGED <<runConst, normalized, midi_path, musicxml_path, deleted,
                   capCalls, libCalls, stdout>>

----------------------------------------------------------------------------
\* The final summary and return 0

Line(label, p, text) == [label |-> label, path |-> p, text |-> text]

\* the lines main() prints to stdout
Report ==
    <<Line("Input audio", args.audio, "")>> \o
    (IF normalized # NoPath THEN <<Line("Normalized", normalized, "")>> ELSE <<>>) \o
    <<Line("MIDI", midi_path, ""), Line("MusicXML", musicxml_path, "")>> \o
    (IF pdf_path # NoPath THEN <<Line("PDF", pdf_path, "")>>
     ELSE <<Line("PDF", NoPath, "(not generated)")>>)

Summary ==
    /\ pc = "summary"
    /\ stdout' = Report
    /\ exit' = 0
    /\ pc' = "done"
    /\ UNCHANGED <<runConst, fs, normalized, midi_path, musicxml_path, pdf_path,
                   calls, rets, deleted, capCalls, toolCalls, libCalls, stderr, abort>>

----------------------------------------------------------------------------
Next ==
    \/ MainCheckInput
    \/ ScoreOnly
    \/ PreprocessAudio
    \/ BPImport
    \/ BPCleanup
    \/ BPPredict
    \/ BPLocate
    \/ ConvertPrimary
    \/ ConvertFallback
    \/ MusicxmlToPdf
    \/ Summary
    \/ NextRun

Spec == Init /\ [][Next]_vars

\* every step of a run returns or raises: the run makes progress until it ends
RunStep == Next /\ pc \notin {"done", "aborted"}
FairSpec == Spec /\ WF_vars(RunStep)

TypeOK ==
    /\ pc \in {"main", "score_only", "preprocess", "bp_import", "bp_cleanup",
               "bp_predict", "bp_locate", "convert", "fallback", "render",
               "summary", "done", "aborted"}
    /\ run \in 1..MaxRuns
    /\ exit \in {Running, 0, 1}

----------------------------------------------------------------------------
\* Vocabulary of the properties

Ended == pc \in {"done", "aborted"}

\* the filesystem layout contract: D/S.normalized_basic_pitch.<ext>
Expected(ext) ==
    Path(args.output_dir,
         InputStem(args.audio) \o <<".", "normalized", "_basic_pitch", ".", ext>>)

StageOrder == <<"Preprocessor", "Transcriber", "ScoreConverter", "Renderer">>

Invoked(stage) == \E k \in 1..Len(calls) : calls[k].stage = stage
Returned(stage) == \E k \in 1..Len(rets) : rets[k].stage = stage

\* the final report says the PDF was not generated
ReportsNoPdf ==
    /\ stdout # NoReport
    /\ \E k \in 1..Len(stdout) :
        stdout[k].label = "PDF" /\ stdout[k].text = "(not generated)"
    /\ \A k \in 1..Len(stdout) :
        stdout[k].label = "PDF" => stdout[k].text = "(not generated)"

\* the invocations of the notation tool that wrote, or were to write, a PDF
RendererToolCalls ==
    {k \in 1..Len(toolCalls) : Suffix(toolCalls[k].output.name) = <<".", "pdf">>}

----------------------------------------------------------------------------
\* C1: in a full run the stages are invoked in the order Preprocessor,
\* Transcriber, Score Converter, Renderer, each at most once, each only after
\* the stage before it has returned, and each on the path the stage before it
\* returned.
C1_FullRunOrder ==
    ~args.score_only =>
        /\ Len(calls) <= 4
        /\ Len(rets) <= Len(calls)
        /\ Len(calls) <= Len(rets) + 1
        /\ \A k \in 1..Len(calls) : calls[k].stage = StageOrder[k]
        /\ \A k \in 1..Len(rets) : rets[k].stage = StageOrder[k]
        /\ Len(calls) >= 1 => calls[1].input = args.audio
        /\ \A k \in 2..Len(calls) :
            calls[k].input = rets[k - 1].output /\ calls[k].input # NoPath
        /\ pc = "aborted" => Len(calls) = Len(rets) + 1 \/ calls = <<>>

\* a full run that went through the four stages
C1_Witness ==
    ~args.score_only /\ pc = "done" /\ Len(calls) = 4 /\ Len(rets) = 4

\* C2: in resume mode the Preprocessor and the Transcriber are never invoked,
\* nothing is unlinked and predict_and_save is never called; the only stages
\* are the Score Converter and then the Renderer.
C2_ResumeSkipsAudioStages ==
    args.score_only =>
        /\ ~Invoked("Preprocessor") /\ ~Invoked("Transcriber")
        /\ deleted = {}
        /\ capCalls = <<>>
        /\ Len(calls) <= 2
        /\ \A k \in 1..Len(calls) : calls[k].stage = StageOrder[k + 2]
        /\ Len(calls) >= 1 => calls[1].input = Expected("mid")

\* a resume run that converted and rendered, whatever was on disk before
C2_Witness ==
    /\ args.score_only /\ pc = "done" /\ Len(calls) = 2
    /\ Exists(fs0, NormalizedPath(args.audio))
    /\ Exists(fs0, Expected("npz"))

\* C3 as stated: a resume run with no file at D/S.normalized_basic_pitch.mid
\* aborts with exit status 1 and a message naming that path, before any stage
\* is invoked and without the summary.
C3_ResumeMissingAborts_AsStated ==
    (args.score_only /\ ~Exists(fs0, Expected("mid"))) =>
        /\ calls = <<>>
        /\ stdout = NoReport
        /\ pc # "done"
        /\ Ended => exit = 1 /\ abort.path = Expected("mid")

\* C3 amended: the same, for a resume run whose input audio file exists (when
\* it does not, the run aborts earlier and the message names the input audio).
C3_ResumeMissingAborts ==
    (args.score_only /\ Exists(fs0, args.audio) /\ ~Exists(fs0, Expected("mid"))) =>
        /\ calls = <<>>
        /\ stdout = NoReport
        /\ pc # "done"
        /\ Ended => /\ exit = 1
                    /\ abort.cause = "resume_midi_not_found"
                    /\ abort.path = Expected("mid")

\* a resume run that aborted on the missing MIDI
C3_Witness ==
    /\ args.score_only /\ Exists(fs0, args.audio) /\ ~Exists(fs0, Expected("mid"))
    /\ pc = "aborted"

\* C4 as stated: the MIDI a completed run worked on is
\* D/S.normalized_basic_pitch.mid, in a full run as in resume mode, and the
\* MusicXML and PDF paths are D/S.normalized_basic_pitch.musicxml and .pdf.
C4_LayoutContract ==
    pc = "done" =>
        /\ midi_path = Expected("mid")
        /\ musicxml_path = Expected("musicxml")
        /\ pdf_path # NoPath => pdf_path = Expected("pdf")
        /\ \A k \in RendererToolCalls : toolCalls[k].output = Expected("pdf")

\* C5 as stated: after a full run that exits 0 the MIDI and the MusicXML exist
\* at D/S.normalized_basic_pitch.mid and .musicxml, and either the PDF exists at
\* D/S.normalized_basic_pitch.pdf or the report says it was not generated.
C5_FullRunArtifacts ==
    (~args.score_only /\ pc = "done" /\ exit = 0) =>
        /\ Exists(fs, Expected("mid"))
        /\ Exists(fs, Expected("musicxml"))
        /\ Exists(fs, Expected("pdf")) \/ ReportsNoPdf

\* the MusicXML and the PDF of the input are the same in f and g: same
\* presence, same content
SameScores(f, g) ==
    \A ext \in {"musicxml", "pdf"} :
        LET p == Expected(ext)
        IN  /\ Exists(f, p) <=> Exists(g, p)
            /\ (Exists(f, p) /\ Exists(g, p)) => f[p].data = g[p].data

\* the current run is a resume run after a full run that exited 0, with only
\* resume runs in between
ResumeAfterFull == args.score_only /\ prev.sinceFull

C7_RendererFailureTolerated ==
    (Ended /\ \E k \in RendererToolCalls : toolCalls[k].outcome \in {"notfound", "nonzero"})
    => /\ exit = 0
       /\ Exists(fs, midi_path)
       /\ Exists(fs, musicxml_path)
       /\ ReportsNoPdf

\* the Score Converter wrote the MusicXML in this run
ScoreProduced ==
    /\ Exists(fs, musicxml_path)
    /\ fs[musicxml_path].run = run
    /\ musicxml_path = ScorePath(args.output_dir, midi_path, "musicxml")

\* C8 as stated: with the notation tool absent, a run that reaches the Score
\* Converter uses the fallback library, produces the MusicXML and exits 0.
C8_AbsentToolFallsBack_AsStated ==
    (~toolPresent /\ Invoked("ScoreConverter") /\ Ended) =>
        /\ Len(libCalls) = 1
        /\ ScoreProduced
        /\ exit = 0

\* C8 amended: with the notation tool absent, a run that reaches the Score
\* Converter uses the fallback library; when the library does not raise the
\* MusicXML is produced and the run exits 0, and when it raises the run aborts.
C8_AbsentToolFallsBack ==
    (~toolPresent /\ Invoked("ScoreConverter") /\ pc # "fallback") =>
        /\ Len(libCalls) = 1
        /\ libCalls[1].input = midi_path /\ libCalls[1].output = musicxml_path
        /\ libCalls[1].outcome = "ok" => ScoreProduced
        /\ (Ended /\ libCalls[1].outcome = "ok") => exit = 0
        /\ libCalls[1].outcome = "raise" => pc = "aborted" /\ exit = 1

\* a run without the notation tool that ended with the MusicXML of music21
C8_Witness ==
    /\ ~toolPresent /\ pc = "done" /\ Len(libCalls) = 1
    /\ ScoreProduced /\ fs[musicxml_path].data[1] = "music21"

\* the fatal conditions C9 lists
ListedFatal ==
    \/ ~Exists(fs0, args.audio)
    \/ abort.cause \in {"empty_audio", "preprocess_io"}
    \/ abort.cause \in {"basic_pitch_import", "midi_not_found"}
    \/ args.score_only /\ ~Exists(fs0, Expected("mid"))
    \/ \E k \in 1..Len(libCalls) : libCalls[k].outcome = "raise"

\* predict_and_save raised
CapabilityRaised == \E k \in 1..Len(capCalls) : capCalls[k].outcome = "raise"

C10_NoPdfSkipsRenderer ==
    args.no_pdf =>
        /\ ~Invoked("Renderer")
        /\ RendererToolCalls = {}
        /\ Len(toolCalls) <= 1
        /\ pdf_path = NoPath
        /\ (Ended /\ Returned("ScoreConverter")) => exit = 0 /\ ReportsNoPdf

\* a resume run with --no-pdf that ended after a full run with --no-pdf did
C10_Witness ==
    /\ args.no_pdf /\ args.score_only /\ pc = "done"
    /\ prev.args.no_pdf /\ ~prev.args.score_only /\ prev.exit = 0

----------------------------------------------------------------------------
\* the notation tool failed in invocation k of this run
ToolFailed(k) == toolCalls[k].outcome \in {"notfound", "nonzero"}

\* the Renderer's invocation of the notation tool failed
RendererFailed == \E k \in RendererToolCalls : ToolFailed(k)

\* the lines of the report that name an artifact
ArtifactLines ==
    {k \in 1..Len(stdout) :
        /\ stdout[k].label \in {"Normalized", "MIDI", "MusicXML", "PDF"}
        /\ stdout[k].path # NoPath}

\* C11 as stated: every path the final summary lists for Normalized, MIDI,
\* MusicXML and PDF is a file that exists when the summary is printed, and the
\* PDF line reads "(not generated)" exactly when the Renderer was skipped or
\* failed.
C11_ReportListsArtifacts ==
    pc = "done" =>
        /\ \A k \in ArtifactLines : Exists(fs, stdout[k].path)
        /\ ReportsNoPdf <=> (args.no_pdf \/ RendererFailed)

\* the labels of the lines every report has, degraded or not
PlainLabels == {"Input audio", "Normalized", "MIDI", "MusicXML", "PDF"}

\* stderr has a warning about invocation k of the notation tool
Warned(k) ==
    \E j \in 1..Len(stderr) :
        /\ stderr[j].level = "WARNING"
        /\ stderr[j].input = toolCalls[k].input
        /\ stderr[j].output = toolCalls[k].output

\* C12 as stated: in a run that completes, each failure of the notation tool
\* is reported by a warning when it occurs, a failed Renderer is noted in the
\* final report, and the use of the fallback library is noted in the final
\* report too, by a line the report of a run without fallback does not have.
C12_DegradationsReported ==
    pc = "done" =>
        /\ \A k \in 1..Len(toolCalls) : ToolFailed(k) => Warned(k)
        /\ RendererFailed => ReportsNoPdf
        /\ libCalls # <<>> => \E k \in 1..Len(stdout) : stdout[k].label \notin PlainLabels

\* C13: the Score Converter invokes the notation tool first, on the MIDI and
\* the MusicXML path; the fallback library is invoked, once, exactly when that
\* invocation ended with the executable not found or a non-zero exit; exit
\* status 0 suppresses the fallback whether or not the output was written.
C13_FallbackIffPrimaryFailed ==
    /\ Len(libCalls) <= 1
    /\ libCalls # <<>> => Invoked("ScoreConverter")
    /\ Invoked("ScoreConverter") =>
        /\ toolCalls # <<>>
        /\ toolCalls[1].input = midi_path /\ toolCalls[1].output = musicxml_path
        /\ ToolFailed(1) <=> (pc = "fallback" \/ libCalls # <<>>)
        /\ libCalls # <<>> =>
            libCalls[1].input = midi_path /\ libCalls[1].output = musicxml_path

\* a run that ended without fallback although the tool, exiting 0, wrote no
\* MusicXML
C13_Witness ==
    /\ pc = "done" /\ toolCalls[1].outcome = "ok_nofile"
    /\ ~Exists(fs, musicxml_path) /\ libCalls = <<>>

\* the extensions the transcription capability might emit
EmittedExts == {"mid", "npz", "csv", "wav"}

\* C14: when predict_and_save is invoked no file exists at
\* D/S.normalized_basic_pitch.<ext> for ext in mid, npz, csv, wav, and the
\* files that were at those names when the run started have been deleted.
C14_DerivedNamesFree ==
    /\ pc = "bp_predict" =>
        \A ext \in EmittedExts :
            /\ ~Exists(fs, Expected(ext))
            /\ Exists(fs0, Expected(ext)) => Expected(ext) \in deleted
    /\ \A k \in 1..Len(capCalls) : capCalls[k].stale = {}

\* the capability is about to be invoked in a directory that held an old MIDI
\* and an old note file at the derived name
C14_Witness ==
    /\ pc = "bp_predict"
    /\ Exists(fs0, Expected("mid")) /\ Exists(fs0, Expected("npz"))

\* the MIDI files of the output directory whose name starts with S.normalized
PrefixMatches ==
    {p \in DOMAIN fs :
        /\ p.dir = args.output_dir
        /\ StartsWith(p.name, InputStem(args.audio) \o <<".", "normalized">>)
        /\ Len(p.name) >= Len(InputStem(args.audio)) + 4
        /\ p.name[Len(p.name) - 1] = "." /\ p.name[Len(p.name)] = "mid"}

\* the capability has returned and the Transcriber has looked for its MIDI
Located ==
    /\ ~args.score_only /\ pc # "bp_locate"
    /\ capCalls # <<>> /\ capCalls[1].outcome # "raise"

\* C15: once the capability has returned, the Transcriber returns
\* D/S.normalized_basic_pitch.mid whenever that file exists, otherwise the
\* lexicographically first file matching D/S.normalized*.mid, and it fails
\* with the output-missing error exactly when there is neither.
C15_LocateRule ==
    Located =>
        /\ Exists(fs, Expected("mid")) =>
            Returned("Transcriber") /\ midi_path = Expected("mid")
        /\ (~Exists(fs, Expected("mid")) /\ PrefixMatches # {}) =>
            /\ Returned("Transcriber")
            /\ midi_path \in PrefixMatches
            /\ \A q \in PrefixMatches \ {midi_path} : NameLess(midi_path.name, q.name)
        /\ (pc = "aborted" /\ abort.cause = "midi_not_found")
            <=> (~Exists(fs, Expected("mid")) /\ PrefixMatches = {})

\* the Transcriber returned with two prefix matches to choose from and no file
\* at the derived name
C15_Witness ==
    /\ Located /\ Returned("Transcriber")
    /\ ~Exists(fs, Expected("mid")) /\ Cardinality(PrefixMatches) >= 2

\* the files at the Transcriber's derived names
DerivedNames == {Expected(ext) : ext \in EmittedExts}

\* C16 as stated: in a full run the NormalizedAudio the Preprocessor returns
\* and the Transcription the Transcriber returns were both written by this
\* run, the old file at the derived MIDI path is deleted before the capability
\* runs, and nothing but the derived-name files is deleted.
C16_FullRunRegenerates ==
    ~args.score_only =>
        /\ (Invoked("Transcriber") \/ Ended) =>
            (Invoked("Preprocessor") \/ abort.cause = "input_not_found")
        /\ Returned("Preprocessor") =>
            Exists(fs, normalized) /\ fs[normalized].run = run
        /\ (capCalls # <<>> /\ Exists(fs0, Expected("mid"))) =>
            Expected("mid") \in deleted
        /\ Returned("Transcriber") =>
            Exists(fs, midi_path) /\ fs[midi_path].run = run
        /\ deleted \subseteq DerivedNames
        /\ \A p \in DOMAIN fs0 \ DerivedNames : Exists(fs, p)

\* C17: when basic_pitch cannot be imported in a full run, the run aborts
\* with nothing deleted, every file of the output directory still there, and
\* neither the capability, the Score Converter nor the Renderer invoked; a
\* Transcription left by an earlier run is still at its path, as it was.
C17_ImportFailureTouchesNothing ==
    (pc = "aborted" /\ abort.cause = "basic_pitch_import") =>
        /\ ~args.score_only /\ exit # 0
        /\ deleted = {}
        /\ \A p \in DOMAIN fs0 : p.dir = args.output_dir => Exists(fs, p)
        /\ capCalls = <<>> /\ toolCalls = <<>> /\ libCalls = <<>>
        /\ ~Invoked("ScoreConverter") /\ ~Invoked("Renderer")
        /\ Exists(fs0, Expected("mid")) =>
            Exists(fs, Expected("mid")) /\ fs[Expected("mid")] = fs0[Expected("mid")]

\* the import failed in a directory that held an earlier Transcription
C17_Witness ==
    /\ pc = "aborted" /\ abort.cause = "basic_pitch_import"
    /\ Exists(fs0, Expected("mid")) /\ Exists(fs0, Expected("npz"))

\* the NormalizedAudio path of this run's input
ExpectedNormalized ==
    Path(args.audio.dir, InputStem(args.audio) \o <<".", "normalized", ".", "wav">>)

\* file p is as it was when the run started: absent, or present with the same
\* content
Untouched(p) ==
    /\ Exists(fs, p) <=> Exists(fs0, p)
    /\ Exists(fs, p) => fs[p] = fs0[p]

\* C18: throughout a resume-mode run, and when it ends, the Transcription and
\* the NormalizedAudio are as they were when it started; the Transcription
\* that passed the existence check is still there.
C18_ResumeKeepsInputs ==
    args.score_only =>
        /\ Untouched(Expected("mid")) /\ Untouched(ExpectedNormalized)
        /\ Invoked("ScoreConverter") => Exists(fs, Expected("mid"))

\* a resume-mode run aborted in the fallback library
C18_Witness ==
    /\ args.score_only /\ pc = "aborted" /\ abort.cause = "music21_raised"
    /\ Exists(fs0, ExpectedNormalized)

\* the causes of an abort inside the Transcriber after the cleanup loop
LateTranscriberAborts == {"basic_pitch_raised", "midi_not_found"}

ToolCallsOn(input_path) ==
    {k \in 1..Len(toolCalls) : toolCalls[k].input = input_path}

\* C20: under FairSpec, where every step of a run that is under way is
\* eventually taken, every run reaches its final summary or an abort; no stage
\* is invoked twice in a run, and the notation tool is invoked at most twice,
\* at most once on the MIDI and at most once on the MusicXML.
C20_RunsTerminate ==
    /\ [](/\ Len(toolCalls) <= 2
          /\ \A k \in 1..Len(toolCalls) :
                /\ toolCalls[k].input \in {midi_path, musicxml_path}
                /\ Cardinality(ToolCallsOn(toolCalls[k].input)) = 1
          /\ \A j, k \in 1..Len(calls) : calls[j].stage = calls[k].stage => j = k)
    /\ (~Ended ~> Ended)

\* a run that invoked the notation tool for both conversions has ended
C20_Witness ==
    /\ pc = "done" /\ exit = 0 /\ Len(toolCalls) = 2
    /\ Invoked("Renderer")

====
